---- MODULE Spec2Model ----
(***************************************************************************)
(* Discovery pipeline of pa11y-go-wrapper (package discovery):             *)
(* Service.Discover and the functions it calls.  Strings the code inspects *)
(* byte by byte (URLs, LLM responses, HTML) are sequences of one-byte      *)
(* strings; error texts and HTTP status lines are opaque strings.          *)
(***************************************************************************)
EXTENDS Integers, Sequences, FiniteSets, TLC

VARIABLES
  pc,            \* position of Discover: the stage about to run
  stack,         \* call stack of parseXMLSitemap (one frame per active call)
  lastRet,       \* history: the parseXMLSitemap call that returned last
  population,    \* history: the argument of the last sampleUrls call
  initialURLs,   \* Discover's initialURLs
  narrowedURLs,  \* Discover's narrowedURLs
  heads,         \* extractHeads' map url -> head fragment
  finalResults,  \* Discover's finalResults
  curated,       \* history: finalResults as stage 2 returned them
  checked,       \* history: the GETs of checkURLStatus, in order
  llmResp,       \* text of the LLM response being parsed
  body,          \* page body extractHeads has read for urls[idx]
  idx,           \* loop index of extractHeads / of the status loop
  slept,         \* history: extractHeads slept since its last GET
  reqs,          \* history: number of requests issued, by kind
  ret            \* what Discover returned

vars == <<pc, stack, lastRet, population, initialURLs, narrowedURLs, heads,
          finalResults, curated, checked, llmResp, body, idx, slept, reqs, ret>>

Nil == "nil"

\* ------------------------------------------------------------------ strings

Min(a, b) == IF a < b THEN a ELSE b

Range(s) == {s[i] : i \in 1..Len(s)}

RECURSIVE Concat(_)
Concat(ss) == IF ss = <<>> THEN <<>> ELSE Head(ss) \o Concat(Tail(ss))

\* s[from..] with Go's 0-based offset: s[off:]
From(s, off) == SubSeq(s, off + 1, Len(s))
\* s[:off]
UpTo(s, off) == SubSeq(s, 1, off)

HasPrefix(s, p) == Len(s) >= Len(p) /\ SubSeq(s, 1, Len(p)) = p
HasSuffix(s, p) == Len(s) >= Len(p) /\ SubSeq(s, Len(s) - Len(p) + 1, Len(s)) = p
TrimPrefix(s, p) == IF HasPrefix(s, p) THEN From(s, Len(p)) ELSE s
TrimSuffix(s, p) == IF HasSuffix(s, p) THEN UpTo(s, Len(s) - Len(p)) ELSE s

\* strings.Index: 0-based offset of the first occurrence of p in s, or -1
Index(s, p) ==
  LET hits == {k \in 0..(Len(s) - Len(p)) : SubSeq(s, k + 1, k + Len(p)) = p}
  IN IF hits = {} THEN -1 ELSE CHOOSE k \in hits : \A j \in hits : k <= j

CountOf(s, x) == Cardinality({i \in 1..Len(s) : s[i] = x})

\* s and t hold the same entries with the same multiplicities
SameBag(s, t) == /\ Len(s) = Len(t)
                 /\ \A x \in Range(s) \cup Range(t) : CountOf(s, x) = CountOf(t, x)

\* every entry of s occurs in t at least as often as in s
SubBag(s, t) == \A x \in Range(s) : CountOf(s, x) <= CountOf(t, x)

\* ------------------------------------------------------------- the web site

UA == <<"/", "a">>
UB == <<"/", "b", "b">>
UC == <<"/", "c", "c">>
SiteURL == <<"h">>
SitemapSuffix == <<"/", "s", ".", "x">>
S1 == <<"h", "/", "1">>
S2gz == <<"h", "/", "2", ".", "g", "z">>
GzSuffix == <<".", "g", "z">>

\* A <url> element is the sequence of the texts of its <loc> children; a
\* <urlset> document is the sequence of its <url> elements.
UrlSets == { <<>>,
             << <<UB>>, <<>>, <<UA>> >>,
             << <<UB, UC>>, <<UB>> >> }

\* A <sitemap> element is the sequence of the texts of its <loc> children; a
\* <sitemapindex> document is the sequence of its <sitemap> elements.
Indexes == { <<>>,
             << <<S2gz>>, <<>>, <<S1>> >> }

\* nesting depth of sitemap indexes the site serves
MaxDepth == 2

\* What a GET of a sitemap URL can bring: a transport error, a status other
\* than 200, or a 200 whose body, after decoding, is not XML, has another
\* root, or is one of the documents.
Contents(docs) ==
  {[kind |-> k, items |-> <<>>] : k \in {"notxml", "otherroot"}}
    \cup {[kind |-> "urlset", items |-> d] : d \in docs.urlsets}
    \cup {[kind |-> "sitemapindex", items |-> d] : d \in docs.indexes}

Fetches(docs) ==
  {[net |-> n, gzipHeader |-> FALSE, gzipBody |-> FALSE,
    content |-> [kind |-> "notxml", items |-> <<>>]] : n \in {"error", "404"}}
    \cup [net : {"200"}, gzipHeader : BOOLEAN, gzipBody : BOOLEAN,
          content : Contents(docs)]

\* a site serves any of its documents at any URL, unless at fixes what the
\* GET of a URL brings; depth is how deep its indexes are followed
AllDocs == [urlsets |-> UrlSets, indexes |-> Indexes, at |-> <<>>, depth |-> MaxDepth]

\* what the GET of url brings at the site
Served(docs, url) ==
  IF url \in DOMAIN docs.at THEN docs.at[url] ELSE Fetches(docs)

\* ---------------------------------------------------------- sitemap resolver

ErrFetch == "failed to fetch sitemap"
ErrStatus == "sitemap not found or accessible"
ErrGzip == "failed to create gzip reader"
ErrXML == "failed to parse sitemap XML"
ErrFormat == "invalid sitemap format: neither <sitemapindex> nor <urlset> found"

Ok(v) == [err |-> Nil, val |-> v]
FailMutant(e) == [err |-> Nil, val |-> <<>>]
\* return nil, fmt.Errorf(...)
Fail(e) == [err |-> e, val |-> <<>>]

\* SelectElement("loc") of every element, then loc.Text(): elements with no
\* <loc> child are passed over, the first <loc> child counts.
RECURSIVE LocTexts(_)
LocTexts(elems) ==
  IF elems = <<>> THEN <<>>
  ELSE IF Head(elems) = <<>> THEN LocTexts(Tail(elems))
       ELSE <<Head(elems)[1]>> \o LocTexts(Tail(elems))

AppendSubMutant(urls, sub) == sub
\* urls = append(urls, subSitemapURLs...)
AppendSub(urls, sub) == urls \o sub

UrlsetURLsMutant(items) == LET l == LocTexts(items) IN [i \in 1..Len(l) |-> l[Len(l) + 1 - i]]
\* the loop over urlset.SelectElements("url")
UrlsetURLs(items) == LocTexts(items)

DecodeMutant(url, f) == [kind |-> "urlset", items |-> <<>>]
\* reader selection and doc.ReadFrom: what parsing the body of a 200 gives
Decode(url, f) ==
  IF f.gzipHeader \/ HasSuffix(url, GzSuffix)
  THEN IF f.gzipBody THEN f.content ELSE [kind |-> "gziperr", items |-> <<>>]
  ELSE IF f.gzipBody THEN [kind |-> "notxml", items |-> <<>>] ELSE f.content

NewFrame(url) == [url |-> url, st |-> "fetch", refs |-> <<>>, i |-> 1,
                  urls |-> <<>>, got |-> <<>>]

DeliverMutant(frame, res) ==
  IF res.err # Nil
  THEN [frame EXCEPT !.i = @ + 1, !.got = Append(@, res), !.urls = Append(@, <<>>)]
  ELSE [frame EXCEPT !.i = @ + 1, !.got = Append(@, res),
                     !.urls = AppendSub(@, res.val)]

\* the caller's loop body after the recursive call returned res
Deliver(frame, res) ==
  IF res.err # Nil
  THEN [frame EXCEPT !.i = @ + 1, !.got = Append(@, res)]
  ELSE [frame EXCEPT !.i = @ + 1, !.got = Append(@, res),
                     !.urls = AppendSub(@, res.val)]

NoRet == [kind |-> "none", depth |-> 0, res |-> Ok(<<>>), items |-> <<>>, got |-> <<>>]
NoReturn == [done |-> FALSE, nil |-> TRUE, results |-> <<>>, err |-> Nil]

\* parseXMLSitemap returns res; kind names the document it read or the cause
\* of the failure, items are the elements of the document
Return(res, kind, items) ==
  /\ lastRet' = [kind |-> kind, depth |-> Len(stack), res |-> res, items |-> items,
                 got |-> stack[Len(stack)].got]
  /\ IF Len(stack) > 1
     THEN /\ stack' = SubSeq(stack, 1, Len(stack) - 2)
                        \o <<Deliver(stack[Len(stack) - 1], res)>>
          /\ UNCHANGED <<pc, initialURLs, ret>>
     ELSE /\ stack' = <<>>
          /\ IF res.err # Nil
             THEN /\ pc' = "done"
                  /\ ret' = [done |-> TRUE, nil |-> TRUE, results |-> <<>>, err |-> res.err]
                  /\ UNCHANGED initialURLs
             ELSE /\ pc' = "sample"
                  /\ initialURLs' = res.val
                  /\ UNCHANGED ret

\* http.Get of the sitemap and the parse of its body
ParseFetch(docs) ==
  /\ pc = "resolve"
  /\ stack # <<>>
  /\ stack[Len(stack)].st = "fetch"
  /\ \E f \in Served(docs, stack[Len(stack)].url) :
       LET top == stack[Len(stack)]
           c == Decode(top.url, f)
       IN /\ (c.kind = "sitemapindex" /\ c.items # <<>>) => Len(stack) <= docs.depth
          /\ CASE f.net = "error" -> Return(Fail(ErrFetch), "transport", <<>>)
               [] f.net = "404" -> Return(Fail(ErrStatus), "status", <<>>)
               [] OTHER ->
                  CASE c.kind = "gziperr" -> Return(Fail(ErrGzip), "gziperr", <<>>)
                    [] c.kind = "notxml" -> Return(Fail(ErrXML), "notxml", <<>>)
                    [] c.kind = "otherroot" -> Return(Fail(ErrFormat), "otherroot", <<>>)
                    [] c.kind = "urlset" ->
                         Return(Ok(UrlsetURLs(c.items)), "urlset", c.items)
                    [] c.kind = "sitemapindex" ->
                         /\ stack' = [stack EXCEPT ![Len(stack)] =
                                        [@ EXCEPT !.st = "index", !.refs = c.items]]
                         /\ UNCHANGED <<lastRet, pc, initialURLs, ret>>
  /\ UNCHANGED <<population, narrowedURLs, heads, finalResults, curated, checked,
                 llmResp, body, idx, slept, reqs>>

\* one iteration of the loop over sitemapIndex.SelectElements("sitemap")
IndexNext ==
  /\ pc = "resolve"
  /\ stack # <<>>
  /\ LET top == stack[Len(stack)] IN
       /\ top.st = "index"
       /\ top.i <= Len(top.refs)
       /\ IF top.refs[top.i] = <<>>
          THEN stack' = [stack EXCEPT ![Len(stack)].i = @ + 1]
          ELSE stack' = Append(stack, NewFrame(top.refs[top.i][1]))
  /\ UNCHANGED <<pc, lastRet, population, initialURLs, narrowedURLs, heads,
                 finalResults, curated, checked, llmResp, body, idx, slept, reqs, ret>>

\* return urls, nil at the end of the index loop
IndexReturn ==
  /\ pc = "resolve"
  /\ stack # <<>>
  /\ LET top == stack[Len(stack)] IN
       /\ top.st = "index"
       /\ top.i > Len(top.refs)
       /\ Return(Ok(top.urls), "sitemapindex", top.refs)
  /\ UNCHANGED <<population, narrowedURLs, heads, finalResults, curated, checked,
                 llmResp, body, idx, slept, reqs>>

\* llmErr: the curation call (1 or 2) that ended in a transport error, 0 if none;
\* headFail: the GETs and reads of extractHeads that failed
NoReqs == [llm1 |-> 0, llmErr |-> 0, head |-> 0, headFail |-> 0, llm2 |-> 0,
           status |-> 0]

\* Discover(siteURL, siteCategory) is called: getURLsFromSitemap builds the
\* root sitemap URL and calls parseXMLSitemap on it.
InitResolve ==
  /\ pc = "resolve"
  /\ stack = <<NewFrame(SiteURL \o SitemapSuffix)>>
  /\ lastRet = NoRet
  /\ population = <<>>
  /\ initialURLs = <<>>
  /\ narrowedURLs = <<>>
  /\ heads = <<>>
  /\ finalResults = <<>>
  /\ curated = <<>>
  /\ checked = <<>>
  /\ llmResp = <<>>
  /\ body = <<>>
  /\ idx = 0
  /\ slept = TRUE
  /\ reqs = NoReqs
  /\ ret = NoReturn

NextResolve == ParseFetch(AllDocs) \/ IndexNext \/ IndexReturn

SpecResolve == InitResolve /\ [][NextResolve]_vars

\* ------------------------------------------------------- population sampler

SampleThreshold == 200
ShortestCount == 20
RandomCount == 180

RECURSIVE KSubsets(_, _)
\* the subsets of S with k elements
KSubsets(S, k) ==
  IF k = 0 THEN {{}}
  ELSE IF k = Cardinality(S) THEN {S}
  ELSE UNION {{{x} \cup T : T \in KSubsets({y \in S : y > x}, k - 1)} : x \in S}

RECURSIVE Arrange(_, _)
\* every way to put the entries of s on the positions free, one entry each;
\* the entry that occurs least often is placed first
Arrange(s, free) ==
  IF s = <<>> THEN {<<>>}
  ELSE LET x == CHOOSE v \in Range(s) :
                  \A w \in Range(s) : CountOf(s, v) <= CountOf(s, w)
           others == SelectSeq(s, LAMBDA u : u # x)
       IN UNION {{[p \in free |-> IF p \in P THEN x ELSE g[p]]
                   : g \in Arrange(others, free \ P)}
                 : P \in KSubsets(free, CountOf(s, x))}

\* every arrangement of the entries of s
Perms(s) == Arrange(s, 1..Len(s))

MinLen(urls) ==
  CHOOSE m \in {Len(urls[i]) : i \in 1..Len(urls)} :
    \A i \in 1..Len(urls) : m <= Len(urls[i])

RECURSIVE SortByLength(_)
\* sort.Slice with less = len(urlsCopy[i]) < len(urlsCopy[j]): the sort is
\* not stable, so entries of equal length come out in any order
SortByLength(urls) ==
  IF urls = <<>> THEN {<<>>}
  ELSE LET m == MinLen(urls)
           shortest == SelectSeq(urls, LAMBDA u : Len(u) = m)
           longer == SelectSeq(urls, LAMBDA u : Len(u) > m)
       IN {p \o q : p \in Perms(shortest), q \in SortByLength(longer)}

\* rand.Shuffle with the swap of lines 105-107: any arrangement
Shuffles(urlsCopy) == Perms(urlsCopy)

NeedsSamplingMutant(urls) == Len(urls) >= SampleThreshold
\* the negation of the guard len(urls) <= 200
NeedsSampling(urls) == Len(urls) > SampleThreshold

SampleSizeMutant(urlsCopy) == Min(RandomCount + 1, Len(urlsCopy))
\* sampleSize := 180, lowered to len(urlsCopy) when that is smaller
SampleSize(urlsCopy) == Min(RandomCount, Len(urlsCopy))

\* the results sampleUrls can return for urls
sampleUrls(urls) ==
  IF ~NeedsSampling(urls) THEN {urls}
  ELSE UNION {
         LET first == IF Len(sorted) >= ShortestCount
                      THEN UpTo(sorted, ShortestCount) ELSE sorted
             urlsCopy == IF Len(sorted) >= ShortestCount
                         THEN From(sorted, ShortestCount) ELSE <<>>
         IN IF Len(urlsCopy) > 0
            THEN {first \o UpTo(sh, SampleSize(urlsCopy)) : sh \in Shuffles(urlsCopy)}
            ELSE {first}
         : sorted \in SortByLength(urls)}

\* initialURLs = s.sampleUrls(siteURL, initialURLs)
Sample ==
  /\ pc = "sample"
  /\ population' = initialURLs
  /\ \E result \in sampleUrls(initialURLs) : initialURLs' = result
  /\ pc' = "narrow"
  /\ UNCHANGED <<stack, lastRet, narrowedURLs, heads, finalResults, curated,
                 checked, llmResp, body, idx, slept, reqs, ret>>

Filler == <<"/", "f", "f", "f", "f">>

\* how far above the threshold the sampled populations go
MaxExtra == 1

\* length of the exhaustively enumerated short populations
MaxSmall == 2

Repeat(x, n) == [i \in 1..n |-> x]

SmallPopulations == UNION {[1..n -> {UA, UB, UC}] : n \in 0..MaxSmall}

\* populations around the threshold: fillers with a few short URLs, placed
\* so that sorting has to move them
LargePopulations ==
  UNION {{ Repeat(Filler, n - 21) \o Repeat(UA, 21),
           <<UC>> \o Repeat(Filler, n - 21) \o <<UB>> \o Repeat(UA, 19),
           <<UA>> \o Repeat(Filler, n - 1),
           Repeat(Filler, n - 2) \o <<UB, UA>> }
         : n \in (SampleThreshold - 1)..(SampleThreshold + MaxExtra)}

InitSample ==
  /\ pc = "sample"
  /\ stack = <<>>
  /\ lastRet = NoRet
  /\ population = <<>>
  /\ initialURLs \in SmallPopulations \cup LargePopulations
  /\ narrowedURLs = <<>>
  /\ heads = <<>>
  /\ finalResults = <<>>
  /\ curated = <<>>
  /\ checked = <<>>
  /\ llmResp = <<>>
  /\ body = <<>>
  /\ idx = 0
  /\ slept = TRUE
  /\ reqs = NoReqs
  /\ ret = NoReturn

NextSample == Sample

SpecSample == InitSample /\ [][NextSample]_vars

\* ------------------------------------------------------------ encoding/json

Q == "\""
WhiteSpace == {" ", "\n", "\t", "\r"}
Digits == {"0", "1", "2", "3", "4", "5", "6", "7", "8", "9"}
NullText == <<"n", "u", "l", "l">>

UpperLetters == <<"A", "B", "C", "D", "E", "F", "G", "H", "I", "J", "K", "L", "M",
                  "N", "O", "P", "Q", "R", "S", "T", "U", "V", "W", "X", "Y", "Z">>
LowerLetters == <<"a", "b", "c", "d", "e", "f", "g", "h", "i", "j", "k", "l", "m",
                  "n", "o", "p", "q", "r", "s", "t", "u", "v", "w", "x", "y", "z">>

LowerByte(c) ==
  IF \E i \in 1..Len(UpperLetters) : UpperLetters[i] = c
  THEN LowerLetters[CHOOSE i \in 1..Len(UpperLetters) : UpperLetters[i] = c]
  ELSE c

\* number of leading white-space bytes of s
LeadingSpace(s) ==
  IF \A i \in 1..Len(s) : s[i] \in WhiteSpace THEN Len(s)
  ELSE (CHOOSE k \in 1..Len(s) :
          s[k] \notin WhiteSpace /\ \A i \in 1..(k - 1) : s[i] \in WhiteSpace) - 1

\* number of trailing white-space bytes of s
TrailingSpace(s) ==
  IF \A i \in 1..Len(s) : s[i] \in WhiteSpace THEN Len(s)
  ELSE Len(s) - (CHOOSE k \in 1..Len(s) :
                   s[k] \notin WhiteSpace /\ \A i \in (k + 1)..Len(s) : s[i] \in WhiteSpace)

SkipSpace(s) == From(s, LeadingSpace(s))

\* strings.TrimSpace
TrimSpace(s) == LET t == SkipSpace(s) IN UpTo(t, Len(t) - TrailingSpace(t))

Parsed(v, rest) == [ok |-> TRUE, val |-> v, rest |-> rest]
NotParsed == [ok |-> FALSE, val |-> [t |-> "none", v |-> <<>>], rest |-> <<>>]

RECURSIVE ParseValue(_), ParseElements(_, _), ParseMembers(_, _)

\* one JSON value at the front of s (after white space): a string without
\* escapes, null, a number, an array or an object
ParseValue(s0) ==
  LET s == SkipSpace(s0) IN
  IF s = <<>> THEN NotParsed
  ELSE IF s[1] = Q
  THEN LET close == Index(Tail(s), <<Q>>) IN
       IF close = -1 \/ \E i \in 2..(close + 1) : s[i] \in {"\n", "\t", "\r", "\\"}
       THEN NotParsed
       ELSE Parsed([t |-> "string", v |-> SubSeq(s, 2, close + 1)], From(s, close + 2))
  ELSE IF HasPrefix(s, NullText)
  THEN Parsed([t |-> "null", v |-> <<>>], From(s, Len(NullText)))
  ELSE IF s[1] \in Digits
  THEN LET n == CHOOSE k \in 1..Len(s) :
                  /\ \A i \in 1..k : s[i] \in Digits
                  /\ k < Len(s) => s[k + 1] \notin Digits
       IN IF n > 1 /\ s[1] = "0" THEN NotParsed
          ELSE Parsed([t |-> "number", v |-> UpTo(s, n)], From(s, n))
  ELSE IF s[1] = "["
  THEN LET t == SkipSpace(Tail(s)) IN
       IF t # <<>> /\ t[1] = "]"
       THEN Parsed([t |-> "array", v |-> <<>>], Tail(t))
       ELSE ParseElements(t, <<>>)
  ELSE IF s[1] = "{"
  THEN LET t == SkipSpace(Tail(s)) IN
       IF t # <<>> /\ t[1] = "}"
       THEN Parsed([t |-> "object", v |-> <<>>], Tail(t))
       ELSE ParseMembers(t, <<>>)
  ELSE NotParsed

\* the elements of an array, s standing before an element
ParseElements(s, acc) ==
  LET e == ParseValue(s) IN
  IF ~e.ok THEN NotParsed
  ELSE LET t == SkipSpace(e.rest) IN
       IF t = <<>> THEN NotParsed
       ELSE IF t[1] = "," THEN ParseElements(Tail(t), Append(acc, e.val))
       ELSE IF t[1] = "]" THEN Parsed([t |-> "array", v |-> Append(acc, e.val)], Tail(t))
       ELSE NotParsed

\* the members of an object, s standing before a key
ParseMembers(s, acc) ==
  LET k == ParseValue(s) IN
  IF ~k.ok \/ k.val.t # "string" THEN NotParsed
  ELSE LET c == SkipSpace(k.rest) IN
       IF c = <<>> \/ c[1] # ":" THEN NotParsed
       ELSE LET e == ParseValue(Tail(c)) IN
            IF ~e.ok THEN NotParsed
            ELSE LET t == SkipSpace(e.rest)
                     m == Append(acc, [key |-> k.val.v, val |-> e.val])
                 IN IF t = <<>> THEN NotParsed
                    ELSE IF t[1] = "," THEN ParseMembers(Tail(t), m)
                    ELSE IF t[1] = "}" THEN Parsed([t |-> "object", v |-> m], Tail(t))
                    ELSE NotParsed

\* a whole JSON text: one value, white space around it and nothing else
ParseJSON(s) ==
  LET p == ParseValue(s) IN
  IF p.ok /\ SkipSpace(p.rest) = <<>> THEN p ELSE NotParsed

KeyURL == <<"u", "r", "l">>
KeyStatus == <<"s", "t", "a", "t", "u", "s">>
KeyCategory == <<"c", "a", "t", "e", "g", "o", "r", "y">>

FoldKey(k) == [i \in 1..Len(k) |-> LowerByte(k[i])]

\* the errors of json.Unmarshal: a SyntaxError says where the text stops
\* being JSON, an UnmarshalTypeError names the Go type that could not take
\* the JSON value
SyntaxErr == "json: syntax error"
TypeErrStrings == "json: cannot unmarshal into Go value of type []string"
TypeErrResults == "json: cannot unmarshal into Go value of type []discovery.Result"

\* json.Unmarshal into a string: a JSON string sets it, null leaves it, any
\* other value is an UnmarshalTypeError
StringOf(v, old) ==
  IF v.t = "string" THEN [bad |-> FALSE, val |-> v.v]
  ELSE IF v.t = "null" THEN [bad |-> FALSE, val |-> old]
  ELSE [bad |-> TRUE, val |-> old]

\* json.Unmarshal into []string
UnmarshalStrings(s) ==
  LET p == ParseJSON(s) IN
  IF ~p.ok THEN Fail(SyntaxErr)
  ELSE IF p.val.t = "null" THEN Ok(<<>>)
  ELSE IF p.val.t # "array" THEN Fail(TypeErrStrings)
  ELSE LET es == [i \in 1..Len(p.val.v) |-> StringOf(p.val.v[i], <<>>)] IN
       IF \E i \in 1..Len(es) : es[i].bad THEN Fail(TypeErrStrings)
       ELSE Ok([i \in 1..Len(es) |-> es[i].val])

ZeroResult == [url |-> <<>>, status |-> <<>>, category |-> <<>>]

RECURSIVE SetFields(_, _)
\* the members of a JSON object stored into a Result, in order; keys match
\* the json tags without regard to case, other keys are skipped
SetFields(members, r) ==
  IF members = <<>> THEN [bad |-> FALSE, val |-> r]
  ELSE LET m == Head(members)
           k == FoldKey(m.key)
       IN IF k \notin {KeyURL, KeyStatus, KeyCategory}
          THEN SetFields(Tail(members), r)
          ELSE LET old == IF k = KeyURL THEN r.url
                          ELSE IF k = KeyStatus THEN r.status ELSE r.category
                   f == StringOf(m.val, old)
                   r2 == IF k = KeyURL THEN [r EXCEPT !.url = f.val]
                         ELSE IF k = KeyStatus THEN [r EXCEPT !.status = f.val]
                         ELSE [r EXCEPT !.category = f.val]
                   more == SetFields(Tail(members), r2)
               IN [bad |-> f.bad \/ more.bad, val |-> more.val]

\* json.Unmarshal into a Result
ResultOf(v) ==
  IF v.t = "object" THEN SetFields(v.v, ZeroResult)
  ELSE IF v.t = "null" THEN [bad |-> FALSE, val |-> ZeroResult]
  ELSE [bad |-> TRUE, val |-> ZeroResult]

\* json.Unmarshal into []Result
UnmarshalResults(s) ==
  LET p == ParseJSON(s) IN
  IF ~p.ok THEN Fail(SyntaxErr)
  ELSE IF p.val.t = "null" THEN Ok(<<>>)
  ELSE IF p.val.t # "array" THEN Fail(TypeErrResults)
  ELSE LET es == [i \in 1..Len(p.val.v) |-> ResultOf(p.val.v[i])] IN
       IF \E i \in 1..Len(es) : es[i].bad THEN Fail(TypeErrResults)
       ELSE Ok([i \in 1..Len(es) |-> es[i].val])

\* ---------------------------------------------------------- curation client

\* the byte 0x60, the backquote (a TLA+ string cannot hold one)
BQ == "0x60"
Fence == <<BQ, BQ, BQ>>
FenceJSON == Fence \o <<"j", "s", "o", "n">>

ErrLLM == "failed to call LLM"
ErrJSON == "failed to parse JSON response"
ErrJSONStrings == "failed to parse JSON response: type []string"
ErrJSONResults == "failed to parse JSON response: type []discovery.Result"

\* fmt.Errorf("failed to parse JSON response: %w", err): the text of the
\* wrapped error follows the prefix
WrapText(e) ==
  IF e = TypeErrStrings THEN ErrJSONStrings
  ELSE IF e = TypeErrResults THEN ErrJSONResults ELSE ErrJSON

\* if err != nil { return nil, fmt.Errorf("failed to parse JSON response: %w", err) }
Wrapped(r) == IF r.err # Nil THEN Fail(WrapText(r.err)) ELSE r

parseJSONURLs(in) ==
  Wrapped(UnmarshalStrings(TrimSpace(TrimSuffix(TrimPrefix(in, FenceJSON), Fence))))

parseJSONResponse(in) ==
  Wrapped(UnmarshalResults(TrimSuffix(TrimPrefix(in, FenceJSON), Fence)))

RECURSIVE Join(_, _)
Join(parts, sep) ==
  IF parts = <<>> THEN <<>>
  ELSE IF Len(parts) = 1 THEN parts[1]
  ELSE parts[1] \o sep \o Join(Tail(parts), sep)

Quote(s) == <<Q>> \o s \o <<Q>>

\* the JSON text of a list of URLs
URLsJSON(urls) ==
  <<"[">> \o Join([i \in 1..Len(urls) |-> Quote(urls[i])], <<",">>) \o <<"]">>

\* the JSON text of a list of {url, category} objects
ResultsJSON(rs) ==
  <<"[">> \o Join([i \in 1..Len(rs) |->
                    <<"{">> \o Quote(KeyURL) \o <<":">> \o Quote(rs[i].url) \o <<",">>
                      \o Quote(KeyCategory) \o <<":">> \o Quote(rs[i].category)
                      \o <<"}">>], <<",">>) \o <<"]">>

\* ---------------------------------------------------------- content extractor

\* the two bytes of U+0130 (capital I with dot above) in UTF-8; unicode.ToLower
\* maps the rune to U+0069, one byte
IDot == <<"0xC4", "0xB0">>
\* U+FFFD in UTF-8: what strings.Map writes for a byte that is no valid UTF-8
RuneError == <<"0xEF", "0xBF", "0xBD">>
HighBytes == {"0xC4", "0xB0"}

\* byte i of s is the second byte of U+0130
IsSecond(s, i) == i > 1 /\ s[i] = IDot[2] /\ s[i - 1] = IDot[1]
\* byte i of s is the first byte of U+0130
IsFirst(s, i) == i < Len(s) /\ s[i] = IDot[1] /\ s[i + 1] = IDot[2]
\* byte i of s is no valid UTF-8
IsLone(s, i) == s[i] \in HighBytes /\ ~IsSecond(s, i) /\ ~IsFirst(s, i)

\* what byte i of s adds to the lowered string
LowerPiece(s, i) ==
  IF IsSecond(s, i) THEN <<>>
  ELSE IF IsFirst(s, i) THEN <<"i">>
  ELSE IF IsLone(s, i) THEN RuneError
  ELSE <<LowerByte(s[i])>>

\* length of what the bytes before byte i of s add to the lowered string
LowerStart(s, i) ==
  (i - 1) - Cardinality({k \in 1..(i - 1) : IsSecond(s, k)})
    + 2 * Cardinality({k \in 1..(i - 1) : IsLone(s, k)})

\* strings.ToLower: rune by rune, so the result can differ in length from s;
\* a string of ASCII bytes is lowered byte by byte
ToLower(s) ==
  IF \A i \in 1..Len(s) : s[i] \notin HighBytes
  THEN [i \in 1..Len(s) |-> LowerByte(s[i])]
  ELSE [j \in 1..LowerStart(s, Len(s) + 1) |->
         LET i == CHOOSE k \in 1..Len(s) :
                    LowerStart(s, k) < j /\ j <= LowerStart(s, k) + Len(LowerPiece(s, k))
         IN LowerPiece(s, i)[j - LowerStart(s, i)]]

Clean(out) == [panic |-> FALSE, out |-> out]
\* a slice expression out of range: the goroutine panics
Panic == [panic |-> TRUE, out |-> <<>>]

TagScript == <<"s", "c", "r", "i", "p", "t">>
TagStyle == <<"s", "t", "y", "l", "e">>

OpenTag(tagName) == <<"<">> \o tagName
CloseTag(tagName) == <<"<", "/">> \o tagName \o <<">">>

RECURSIVE removeTagsAndContent(_, _)

\* lines 266-275: found is the offset of the closing tag after openEnd
RemoveBlock(result, tagName, openStart, openEnd, found) ==
  IF found = -1 THEN Clean(UpTo(result, openStart))
  ELSE IF found + openEnd + Len(CloseTag(tagName)) > Len(result) THEN Panic
  ELSE removeTagsAndContent(
         UpTo(result, openStart)
           \o From(result, found + openEnd + Len(CloseTag(tagName))), tagName)

\* lines 259-265: gt is the offset of the first ">" after openStart
RemoveFromTagEnd(result, tagName, openStart, gt) ==
  IF gt = -1 THEN Clean(result)
  ELSE RemoveBlock(result, tagName, openStart, gt + openStart + 1,
                   Index(ToLower(From(result, gt + openStart + 1)),
                         ToLower(CloseTag(tagName))))

\* lines 253-258: openStart is the offset of the opening tag in the lowered text
RemoveFromTag(result, tagName, openStart) ==
  IF openStart = -1 THEN Clean(result)
  ELSE IF openStart > Len(result) THEN Panic
  ELSE RemoveFromTagEnd(result, tagName, openStart,
                        Index(From(result, openStart), <<">">>))

\* one round of the for loop on result, then the rest of the loop
removeTagsAndContent(result, tagName) ==
  RemoveFromTag(result, tagName, Index(ToLower(result), ToLower(OpenTag(tagName))))

\* lines 238-241: the style pass on what the script pass left
RemoveStyle(r) == IF r.panic THEN r ELSE removeTagsAndContent(r.out, TagStyle)

cleanupHTML(html) == RemoveStyle(removeTagsAndContent(html, TagScript))

HeadOpen == <<"<", "h", "e", "a", "d", ">">>
HeadClose == <<"<", "/", "h", "e", "a", "d", ">">>

\* lines 211-216
CutHead(bodyString, headStart, headEnd) ==
  IF headStart # -1 /\ headEnd # -1
  THEN IF headStart + Len(HeadOpen) > headEnd THEN Panic
       ELSE cleanupHTML(SubSeq(bodyString, headStart + Len(HeadOpen) + 1, headEnd))
  ELSE Clean(<<>>)

\* lines 207-216: the fragment stored for a page body
HeadFragment(bodyString) ==
  CutHead(bodyString, Index(bodyString, HeadOpen), Index(bodyString, HeadClose))

\* heads[url] = fragment
Put(m, url, fragment) ==
  [u \in DOMAIN m \cup {url} |-> IF u = url THEN fragment ELSE m[u]]

HeadTargetsMutant == initialURLs
\* the argument of s.extractHeads(narrowedURLs)
HeadTargets == narrowedURLs

OnFetchErrorMutant(m, url) == m
\* heads[url] = "" on a failed GET or read
OnFetchError(m, url) == Put(m, url, <<>>)

\* http.Get(url) in extractHeads, and io.ReadAll of the body
HeadFetch(bodies) ==
  /\ pc = "heads"
  /\ idx <= Len(HeadTargets)
  /\ slept' = FALSE
  /\ \/ \* the GET or the read failed: empty fragment, continue
        /\ reqs' = [reqs EXCEPT !.head = @ + 1, !.headFail = @ + 1]
        /\ heads' = OnFetchError(heads, HeadTargets[idx])
        /\ idx' = idx + 1
        /\ UNCHANGED <<pc, body>>
     \/ \E b \in bodies :
          /\ reqs' = [reqs EXCEPT !.head = @ + 1]
          /\ body' = b
          /\ pc' = "headExtract"
          /\ UNCHANGED <<heads, idx>>
  /\ UNCHANGED <<stack, lastRet, population, initialURLs, narrowedURLs, finalResults,
                 curated, checked, llmResp, ret>>

\* heads[url] = fragment and the sleep, or the panic of the slice expression
StoreHead(f) ==
  IF f.panic
  THEN /\ pc' = "panic"
       /\ UNCHANGED <<heads, idx, slept>>
  ELSE /\ heads' = Put(heads, HeadTargets[idx], f.out)
       /\ slept' = TRUE
       /\ idx' = idx + 1
       /\ pc' = "heads"

\* lines 207-217: cut the head out of the body, clean it, sleep
HeadExtract ==
  /\ pc = "headExtract"
  /\ StoreHead(HeadFragment(body))
  /\ UNCHANGED <<stack, lastRet, population, initialURLs, narrowedURLs, finalResults,
                 curated, checked, llmResp, body, reqs, ret>>

\* return heads, nil
HeadsDone ==
  /\ pc = "heads"
  /\ idx > Len(HeadTargets)
  /\ pc' = "select"
  /\ UNCHANGED <<stack, lastRet, population, initialURLs, narrowedURLs, heads,
                 finalResults, curated, checked, llmResp, body, idx, slept, reqs, ret>>

\* ------------------------------------------------------------- orchestrator

ReturnError(e) == [done |-> TRUE, nil |-> TRUE, results |-> <<>>, err |-> e]
ReturnResults(rs) == [done |-> TRUE, nil |-> FALSE, results |-> rs, err |-> Nil]

\* s.client.GenerateContent in NarrowDownURLs
NarrowCall(responses) ==
  /\ pc = "narrow"
  /\ \/ /\ reqs' = [reqs EXCEPT !.llm1 = @ + 1, !.llmErr = 1]
        /\ pc' = "done"
        /\ ret' = ReturnError(ErrLLM)
        /\ UNCHANGED llmResp
     \/ \E r \in responses :
          /\ reqs' = [reqs EXCEPT !.llm1 = @ + 1]
          /\ llmResp' = r
          /\ pc' = "narrowParse"
          /\ UNCHANGED ret
  /\ UNCHANGED <<stack, lastRet, population, initialURLs, narrowedURLs, heads,
                 finalResults, curated, checked, body, idx, slept>>

NarrowedMutant(r) ==
  /\ narrowedURLs' = r.val
  /\ heads' = <<>>
  /\ idx' = 1
  /\ pc' = "heads"
  /\ UNCHANGED ret

\* Discover's lines 50-55 on what NarrowDownURLs returned
Narrowed(r) ==
  IF r.err # Nil
  THEN /\ pc' = "done"
       /\ ret' = ReturnError(r.err)
       /\ UNCHANGED <<narrowedURLs, heads, idx>>
  ELSE /\ narrowedURLs' = r.val
       /\ heads' = <<>>
       /\ idx' = 1
       /\ pc' = "heads"
       /\ UNCHANGED ret

\* return parseJSONURLs(resp.Choices[0].Content)
NarrowParse ==
  /\ pc = "narrowParse"
  /\ Narrowed(parseJSONURLs(llmResp))
  /\ UNCHANGED <<stack, lastRet, population, initialURLs, finalResults, curated,
                 checked, llmResp, body, slept, reqs>>

\* s.client.GenerateContent in SelectAndCategorizeURLs
SelectCall(responses) ==
  /\ pc = "select"
  /\ \/ /\ reqs' = [reqs EXCEPT !.llm2 = @ + 1, !.llmErr = 2]
        /\ pc' = "done"
        /\ ret' = ReturnError(ErrLLM)
        /\ UNCHANGED llmResp
     \/ \E r \in responses :
          /\ reqs' = [reqs EXCEPT !.llm2 = @ + 1]
          /\ llmResp' = r
          /\ pc' = "selectParse"
          /\ UNCHANGED ret
  /\ UNCHANGED <<stack, lastRet, population, initialURLs, narrowedURLs, heads,
                 finalResults, curated, checked, body, idx, slept>>

\* Discover's lines 62-66 on what SelectAndCategorizeURLs returned
Selected(r) ==
  IF r.err # Nil
  THEN /\ pc' = "done"
       /\ ret' = ReturnError(r.err)
       /\ UNCHANGED <<finalResults, curated, idx>>
  ELSE /\ finalResults' = r.val
       /\ curated' = r.val
       /\ idx' = 1
       /\ pc' = "status"
       /\ UNCHANGED ret

\* return parseJSONResponse(resp.Choices[0].Content)
SelectParse ==
  /\ pc = "selectParse"
  /\ Selected(parseJSONResponse(llmResp))
  /\ UNCHANGED <<stack, lastRet, population, initialURLs, narrowedURLs, heads,
                 checked, llmResp, body, slept, reqs>>

StatusOK == <<"2", "0", "0", " ", "O", "K">>
StatusNotFound == <<"4", "0", "4", " ", "N", "o", "t", " ", "F", "o", "u", "n", "d">>
ErrorPrefix == <<"E", "r", "r", "o", "r", ":", " ">>
GetPrefix == <<"G", "e", "t", " ">>

\* fmt.Sprintf("Error: %s", err.Error()) for the error of http.Get(url)
ErrorStatus(url) == ErrorPrefix \o GetPrefix \o Quote(url)

\* what checkURLStatus(url) can return
checkURLStatus(url, lines) == {ErrorStatus(url)} \cup lines

SetStatusMutant(rs, i, st) == [rs EXCEPT ![i].status = st, ![i].category = <<>>]
\* finalResults[i].Status = ...
SetStatus(rs, i, st) == [rs EXCEPT ![i].status = st]

\* the argument finalResults[i].URL
CheckedURL(rs, i) == rs[i].url

\* one iteration of the status loop
StatusCheck(lines) ==
  /\ pc = "status"
  /\ idx <= Len(finalResults)
  /\ reqs' = [reqs EXCEPT !.status = @ + 1]
  /\ LET url == CheckedURL(finalResults, idx) IN
       \E st \in checkURLStatus(url, lines) :
         /\ finalResults' = SetStatus(finalResults, idx, st)
         /\ checked' = Append(checked, [url |-> url, status |-> st])
  /\ idx' = idx + 1
  /\ UNCHANGED <<pc, stack, lastRet, population, initialURLs, narrowedURLs, heads,
                 curated, llmResp, body, slept, ret>>

\* return finalResults, nil
Finish ==
  /\ pc = "status"
  /\ idx > Len(finalResults)
  /\ ret' = ReturnResults(finalResults)
  /\ pc' = "done"
  /\ UNCHANGED <<stack, lastRet, population, initialURLs, narrowedURLs, heads,
                 finalResults, curated, checked, llmResp, body, idx, slept, reqs>>

\* ------------------------------------------------------ the discovery run

\* the size the stage-2 prompt asks for ("select the 10 most relevant URLs")
OutputSize == 10

CatTest == <<"t">>
CatShop == <<"s">>

Entry(u, c) == [url |-> u, category |-> c]

\* the sitemaps of the site of a whole run
RunDocs == [urlsets |-> { <<>>, << <<UB>>, <<>>, <<UA>> >> },
            indexes |-> { <<>>, << <<S1>> >> }, at |-> <<>>, depth |-> MaxDepth]

\* the texts the stage-1 call may bring back
NarrowResponses ==
  { URLsJSON(<<UA>>),
    FenceJSON \o <<"\n">> \o URLsJSON(<<UB, UA>>) \o <<"\n">> \o Fence,
    URLsJSON(<<>>),
    NullText,
    <<"[", "\"", "/", "a", "\"">>,
    <<"{", "\"", "u", "r", "l", "s", "\"", ":", "[", "\"", "/", "a", "\"", "]", "}">> }

\* the page bodies a narrowed URL may serve
PageBodies ==
  { <<"<", "b", "o", "d", "y", ">">>,
    <<"<", "h", "e", "a", "d", ">", "x">>,
    <<"<", "h", "e", "a", "d", ">", "<", "t", "i", "t", "l", "e", ">", "X", "<", "/", "t", "i", "t", "l", "e", ">", "<", "s", "c", "r", "i", "p", "t", ">", "x", "<", "/", "s", "c", "r", "i", "p", "t", ">", "<", "/", "h", "e", "a", "d", ">">>,
    <<"<", "/", "h", "e", "a", "d", ">", "<", "h", "e", "a", "d", ">">> }

\* the texts the stage-2 call may bring back
SelectResponses ==
  { ResultsJSON(<<Entry(UA, CatTest)>>),
    FenceJSON \o <<"\n">> \o ResultsJSON(<<Entry(UB, CatShop), Entry(UA, CatTest)>>)
      \o <<"\n">> \o Fence,
    <<"[", "{", "\"", "s", "t", "a", "t", "u", "s", "\"", ":", "\"", "u", "p", "\"", ",", "\"", "c", "a", "t", "e", "g", "o", "r", "y", "\"", ":", "\"", "t", "\"", ",", "\"", "u", "r", "l", "\"", ":", "\"", "/", "a", "\"", "}", "]">>,
    NullText,
    <<"[", "{", "\"", "u", "r", "l", "\"", ":", "\"", "/", "a", "\"">>,
    <<"[", "\"", "/", "a", "\"", "]">> }

\* the status lines a checked URL may answer with
StatusLines == {StatusOK, StatusNotFound}

Init == InitResolve

Next ==
  \/ ParseFetch(RunDocs)
  \/ IndexNext
  \/ IndexReturn
  \/ Sample
  \/ NarrowCall(NarrowResponses)
  \/ NarrowParse
  \/ HeadFetch(PageBodies)
  \/ HeadExtract
  \/ HeadsDone
  \/ SelectCall(SelectResponses)
  \/ SelectParse
  \/ StatusCheck(StatusLines)
  \/ Finish

Spec == Init /\ [][Next]_vars

\* ------------------------------------------------- properties of the resolver

RECURSIVE ConcatOK(_)
\* the URL lists of the results in got that carry no error, joined in order
ConcatOK(got) ==
  IF got = <<>> THEN <<>>
  ELSE (IF got[1].err = Nil THEN got[1].val ELSE <<>>) \o ConcatOK(Tail(got))

\* the elements that have a <loc> child
WithLoc(items) == SelectSeq(items, LAMBDA e : e # <<>>)

\* C2: inside a sitemap index, at any depth, a sub-sitemap that fails is
\* passed over without failing the index: what the index has collected, and
\* what it returns (always without error), is the concatenation, in the order
\* of the <sitemap> elements, of the lists of the sub-sitemaps that succeeded.
SubSitemapsConcatenated ==
  /\ \A d \in 1..Len(stack) :
       /\ stack[d].urls = ConcatOK(stack[d].got)
       /\ stack[d].st = "index" =>
            Len(stack[d].got) = Len(WithLoc(SubSeq(stack[d].refs, 1, stack[d].i - 1)))
  /\ lastRet.kind = "sitemapindex" =>
       /\ lastRet.res.err = Nil
       /\ lastRet.res.val = ConcatOK(lastRet.got)
       /\ Len(lastRet.got) = Len(WithLoc(lastRet.items))
       /\ lastRet.depth = 1 => pc = "sample" /\ initialURLs = lastRet.res.val

\* a nested index returns after a failed sub-sitemap was followed by siblings
\* that succeeded with different, non-empty lists
NestedIndexSkipsFailure ==
  /\ lastRet.kind = "sitemapindex"
  /\ lastRet.depth >= 2
  /\ Len(lastRet.got) = 2
  /\ lastRet.got[1].err # Nil
  /\ lastRet.got[2].err = Nil
  /\ Len(lastRet.got[2].val) >= 2
  /\ lastRet.res.val = lastRet.got[2].val

\* C3: a <urlset> resolves, without error, to one URL for each <url> element
\* that has a <loc>: the k-th URL is the text of the (first) <loc> of the
\* k-th such element, so document order is kept and an element without a
\* <loc> contributes nothing.
UrlsetInDocumentOrder ==
  lastRet.kind = "urlset" =>
    /\ lastRet.res.err = Nil
    /\ Len(lastRet.res.val) = Cardinality({k \in 1..Len(lastRet.items) : lastRet.items[k] # <<>>})
    /\ \A k \in 1..Len(lastRet.items) :
         lastRet.items[k] # <<>> =>
           lastRet.res.val[Cardinality({j \in 1..k : lastRet.items[j] # <<>>})]
             = lastRet.items[k][1]
    /\ lastRet.depth = 1 => pc = "sample" /\ initialURLs = lastRet.res.val

\* a urlset with two different URLs around an element without <loc> was read
UrlsetWithGapResolved ==
  /\ lastRet.kind = "urlset"
  /\ Len(lastRet.items) = 3
  /\ lastRet.items[2] = <<>>
  /\ Len(lastRet.res.val) = 2
  /\ lastRet.res.val[1] # lastRet.res.val[2]

\* -------------------------------------------------- properties of the sampler

\* how many entries of urls are at most n long
AtMost(urls, n) == Len(SelectSeq(urls, LAMBDA u : Len(u) <= n))

\* C4: for a population of at most SampleThreshold URLs sampleUrls returns
\* the list it was given: same entries, same order, nothing dropped.
SmallPopulationUnchanged ==
  (pc = "narrow" /\ Len(population) <= SampleThreshold) => initialURLs = population

\* a population of exactly SampleThreshold URLs, not in order of length, was
\* passed through
ThresholdPopulationKept ==
  /\ pc = "narrow"
  /\ Len(population) = SampleThreshold
  /\ \E i \in 1..(Len(population) - 1) : Len(population[i]) > Len(population[i + 1])
  /\ initialURLs = population

\* C5: for a population of more than SampleThreshold URLs the sample has at
\* most SampleThreshold entries, takes every entry from the population (no
\* more copies of a URL than the population has), and holds the
\* ShortestCount shortest URLs: for every length n it has at least as many
\* entries of length <= n as the population has, up to ShortestCount.
LargePopulationSampled ==
  (pc = "narrow" /\ Len(population) > SampleThreshold) =>
    /\ Len(initialURLs) <= SampleThreshold
    /\ SubBag(initialURLs, population)
    /\ \A n \in {Len(population[i]) : i \in 1..Len(population)} :
         AtMost(initialURLs, n) >= Min(ShortestCount, AtMost(population, n))

\* a population above the threshold, with short URLs at its end, was sampled
\* down to the threshold
LargePopulationCut ==
  /\ pc = "narrow"
  /\ Len(population) > SampleThreshold
  /\ Len(population[Len(population)]) < Len(population[1])
  /\ Len(initialURLs) = SampleThreshold
  /\ Len(initialURLs[1]) = MinLen(population)

\* ---------------------------------------------- properties of a discovery run

\* the run ended with an error and without results
ErrorOut ==
  /\ pc = "done"
  /\ ret.done
  /\ ret.err # Nil
  /\ ret.nil
  /\ ret.results = <<>>

CurationErrors == {ErrLLM, ErrJSON, ErrJSONStrings, ErrJSONResults}

\* the stage-1 call failed in transport, or its response was not accepted
Stage1Failed ==
  /\ reqs.llm1 = 1
  /\ \/ reqs.llmErr = 1
     \/ /\ reqs.llmErr = 0
        /\ reqs.llm2 = 0
        /\ pc # "narrowParse"
        /\ parseJSONURLs(llmResp).err # Nil

\* the stage-2 call failed in transport, or its response was not accepted
Stage2Failed ==
  /\ reqs.llm2 = 1
  /\ \/ reqs.llmErr = 2
     \/ /\ reqs.llmErr = 0
        /\ pc # "selectParse"
        /\ parseJSONResponse(llmResp).err # Nil

\* C1: a curation call that fails, by a transport error or by a response
\* that is not the JSON expected, ends the run with an error and no results;
\* nothing is substituted: after a failed stage 1 no page is fetched and no
\* second call is made, after a failed stage 2 no status is checked.
CurationFailsClosed ==
  /\ Stage1Failed =>
       /\ ErrorOut
       /\ ret.err \in CurationErrors
       /\ reqs.head = 0 /\ reqs.llm2 = 0 /\ reqs.status = 0
       /\ narrowedURLs = <<>>
  /\ Stage2Failed =>
       /\ ErrorOut
       /\ ret.err \in CurationErrors
       /\ reqs.status = 0
       /\ finalResults = <<>>

\* stage 2 brought a response that is not accepted after stage 1 had
\* succeeded and two pages had been fetched
Stage2RejectedAfterHeads ==
  /\ Stage2Failed
  /\ reqs.llmErr = 0
  /\ reqs.head = 2
  /\ Len(narrowedURLs) = 2

\* C7: the entries Discover returns are the entries stage 2 produced, in the
\* same number and order, with url and category untouched; the status of
\* entry i comes from the check of entry i's own URL, and an entry not yet
\* checked still has the status stage 2 gave it.
OnlyStatusIsSet ==
  /\ Len(finalResults) = Len(curated)
  /\ Len(checked) <= Len(curated)
  /\ \A i \in 1..Len(curated) :
       /\ finalResults[i].url = curated[i].url
       /\ finalResults[i].category = curated[i].category
       /\ i <= Len(checked) =>
            /\ checked[i].url = curated[i].url
            /\ finalResults[i].status = checked[i].status
       /\ i > Len(checked) => finalResults[i].status = curated[i].status
  /\ (ret.done /\ ret.err = Nil) =>
       /\ ret.results = finalResults
       /\ Len(checked) = Len(curated)

\* a run returned two entries with different URLs and categories, each with
\* the outcome of its own check
TwoEntriesChecked ==
  /\ ret.done
  /\ ret.err = Nil
  /\ Len(ret.results) = 2
  /\ ret.results[1].url # ret.results[2].url
  /\ ret.results[1].category # ret.results[2].category
  /\ ret.results[1].status = StatusNotFound
  /\ ret.results[2].status = ErrorStatus(ret.results[2].url)

\* the narrowed URLs extractHeads has gone through
Processed == {narrowedURLs[i] : i \in 1..Min(idx - 1, Len(narrowedURLs))}

\* C8: a page that cannot be fetched or read gets the empty fragment and the
\* loop goes on to the next URL; a status check that fails puts the error
\* text in the entry's status and the loop goes on; every narrowed URL gone
\* through has a fragment, all of them once extractHeads has returned; and
\* once curation has begun a run ends in an error only when a curation call
\* failed.
SoftFailuresGoOn ==
  /\ []( /\ pc \in {"heads", "headExtract"} => DOMAIN heads = Processed
         /\ reqs.llm2 > 0 => DOMAIN heads = Range(narrowedURLs)
         /\ (ret.done /\ ret.err # Nil /\ reqs.llm1 > 0) => Stage1Failed \/ Stage2Failed
         /\ \A i \in 1..Len(checked) :
              checked[i].status = ErrorStatus(checked[i].url) =>
                finalResults[i].status = ErrorStatus(finalResults[i].url) )
  /\ [][ /\ reqs'.headFail = reqs.headFail + 1 =>
              /\ heads'[narrowedURLs[idx]] = <<>>
              /\ idx' = idx + 1
              /\ pc' = "heads"
              /\ ret' = ret
         /\ (pc = "status" /\ reqs'.status = reqs.status + 1) =>
              /\ idx' = idx + 1
              /\ pc' = "status"
              /\ ret' = ret ]_vars

\* a run returned results although the first page could not be fetched (the
\* second could) and the first status check failed (the second did not)
RunSurvivedSoftFailures ==
  /\ ret.done
  /\ ret.err = Nil
  /\ Len(narrowedURLs) = 2
  /\ reqs.headFail = 1
  /\ heads[narrowedURLs[1]] = <<>>
  /\ heads[narrowedURLs[2]] # <<>>
  /\ Len(ret.results) = 2
  /\ ret.results[1].status = ErrorStatus(ret.results[1].url)
  /\ ret.results[2].status = StatusOK

\* ------------------------------------------------ stage 2 and the status loop

\* Discover has come to line 61: the sitemap gave UB and UA, stage 1 kept
\* both, and neither page could be fetched.
InitSelect ==
  /\ pc = "select"
  /\ stack = <<>>
  /\ lastRet = [kind |-> "urlset", depth |-> 1, res |-> Ok(<<UB, UA>>),
                items |-> << <<UB>>, <<>>, <<UA>> >>, got |-> <<>>]
  /\ population = <<UB, UA>>
  /\ initialURLs = <<UB, UA>>
  /\ narrowedURLs = <<UB, UA>>
  /\ heads = [u \in {UA, UB} |-> <<>>]
  /\ finalResults = <<>>
  /\ curated = <<>>
  /\ checked = <<>>
  /\ llmResp = FenceJSON \o <<"\n">> \o URLsJSON(<<UB, UA>>) \o <<"\n">> \o Fence
  /\ body = <<>>
  /\ idx = 3
  /\ slept = FALSE
  /\ reqs = [NoReqs EXCEPT !.llm1 = 1, !.head = 2, !.headFail = 2]
  /\ ret = NoReturn

\* n entries over the narrowed URLs
Picks(n) == [i \in 1..n |-> Entry(IF i % 2 = 1 THEN UB ELSE UA, CatTest)]

\* stage-2 responses with as many entries as the prompt asks for, and one more
LongResponses == {ResultsJSON(Picks(n)) : n \in {OutputSize, OutputSize + 1}}

NextSelect ==
  \/ SelectCall(LongResponses)
  \/ SelectParse
  \/ StatusCheck({StatusOK})
  \/ Finish

SpecSelect == InitSelect /\ [][NextSelect]_vars

\* C6: the result set Discover returns never has more than OutputSize
\* entries, whatever stage 2 brought back.
ResultSetBounded ==
  (ret.done /\ ret.err = Nil) => Len(ret.results) <= OutputSize

\* ------------------------------------------------ fenced curation responses

\* the arrays a curation call may answer with
Stage1Arrays == {URLsJSON(<<>>), URLsJSON(<<UA>>), URLsJSON(<<UB, UA>>)}
Stage2Arrays ==
  {ResultsJSON(<<>>), ResultsJSON(<<Entry(UA, CatTest)>>),
   ResultsJSON(<<Entry(UB, CatShop), Entry(UA, CatTest)>>)}

\* what may stand before the array: the fence with the language tag and a
\* newline, the tag without newline, the bare fence, a newline before the fence
FenceOpens ==
  { FenceJSON \o <<"\n">>,
    FenceJSON,
    Fence \o <<"\n">>,
    <<"\n">> \o FenceJSON \o <<"\n">> }

\* what may stand after the array: the closing fence on its own line, right
\* after the array, or followed by a final newline
FenceCloses ==
  { <<"\n">> \o Fence,
    Fence,
    <<"\n">> \o Fence \o <<"\n">> }

Fenced(arrays) == {o \o a \o c : o \in FenceOpens, a \in arrays, c \in FenceCloses}

\* a curation call has just returned a fenced response: stage 1 after the
\* sitemap gave UB and UA, or stage 2 after stage 1 kept both and neither
\* page could be fetched
InitParse ==
  /\ stack = <<>>
  /\ lastRet = [kind |-> "urlset", depth |-> 1, res |-> Ok(<<UB, UA>>),
                items |-> << <<UB>>, <<>>, <<UA>> >>, got |-> <<>>]
  /\ population = <<UB, UA>>
  /\ initialURLs = <<UB, UA>>
  /\ finalResults = <<>>
  /\ curated = <<>>
  /\ checked = <<>>
  /\ body = <<>>
  /\ ret = NoReturn
  /\ \/ /\ pc = "narrowParse"
        /\ llmResp \in Fenced(Stage1Arrays)
        /\ narrowedURLs = <<>>
        /\ heads = <<>>
        /\ idx = 0
        /\ slept = TRUE
        /\ reqs = [NoReqs EXCEPT !.llm1 = 1]
     \/ /\ pc = "selectParse"
        /\ llmResp \in Fenced(Stage2Arrays)
        /\ narrowedURLs = <<UB, UA>>
        /\ heads = [u \in {UA, UB} |-> <<>>]
        /\ idx = 3
        /\ slept = FALSE
        /\ reqs = [NoReqs EXCEPT !.llm1 = 1, !.head = 2, !.headFail = 2, !.llm2 = 1]

NextParse == NarrowParse \/ SelectParse

SpecParse == InitParse /\ [][NextParse]_vars

\* C9: for both curation calls a fenced response gives what the array
\* inside it gives, for every array and every form of fence and whitespace
\* around it: stage 1 goes on with the URLs of the array, stage 2 with its
\* entries.
FencedParsesAsBare ==
  \A o \in FenceOpens, c \in FenceCloses :
    /\ \A a \in Stage1Arrays :
         (llmResp = o \o a \o c /\ reqs.llm2 = 0 /\ pc # "narrowParse") =>
           /\ pc = "heads"
           /\ narrowedURLs = parseJSONURLs(a).val
    /\ \A a \in Stage2Arrays :
         (llmResp = o \o a \o c /\ reqs.llm2 = 1 /\ pc # "selectParse") =>
           /\ pc = "status"
           /\ curated = parseJSONResponse(a).val

\* the same for the one form "```json", newline, array, newline, "```"
PlainFenceParsesAsBare ==
  /\ \A a \in Stage1Arrays :
       (llmResp = FenceJSON \o <<"\n">> \o a \o <<"\n">> \o Fence
          /\ reqs.llm2 = 0 /\ pc # "narrowParse") =>
         /\ pc = "heads"
         /\ narrowedURLs = parseJSONURLs(a).val
  /\ \A a \in Stage2Arrays :
       (llmResp = FenceJSON \o <<"\n">> \o a \o <<"\n">> \o Fence
          /\ reqs.llm2 = 1 /\ pc # "selectParse") =>
         /\ pc = "status"
         /\ curated = parseJSONResponse(a).val

\* ------------------------------------------------------ cleaning of the head

PScript == <<"<", "s", "c", "r", "i", "p", "t", ">">>
PScriptUpper == <<"<", "S", "C", "R", "I", "P", "T", " ", "a", ">">>
PScriptEnd == <<"<", "/", "s", "c", "r", "i", "p", "t", ">">>
PStyle == <<"<", "s", "t", "y", "l", "e", ">">>
PStyleEnd == <<"<", "/", "S", "t", "y", "l", "e", ">">>
PTitle == <<"<", "t", "i", "t", "l", "e", ">", "X", "<", "/", "t", "i", "t", "l", "e", ">">>
PScripts == <<"<", "s", "c", "r", "i", "p", "t", "s", ">">>
PText == <<"x">>

\* the pieces head sections are put together from: opening and closing
\* script and style tags in several spellings, an element of another name, a
\* letter whose lower-case form is shorter in bytes, plain text
HtmlPieces == {PScript, PScriptUpper, PScriptEnd, PStyle, PStyleEnd, PTitle,
               PScripts, IDot, PText}

\* how many pieces a head section has at most
MaxPieces == 3

HeadContents == UNION {{Concat(ps) : ps \in [1..n -> HtmlPieces]} : n \in 0..MaxPieces}

\* extractHeads has read the body of the one narrowed URL
InitHTML ==
  /\ pc = "headExtract"
  /\ stack = <<>>
  /\ lastRet = [kind |-> "urlset", depth |-> 1, res |-> Ok(<<UB, UA>>),
                items |-> << <<UB>>, <<>>, <<UA>> >>, got |-> <<>>]
  /\ population = <<UB, UA>>
  /\ initialURLs = <<UB, UA>>
  /\ narrowedURLs = <<UA>>
  /\ heads = <<>>
  /\ finalResults = <<>>
  /\ curated = <<>>
  /\ checked = <<>>
  /\ llmResp = URLsJSON(<<UA>>)
  /\ \E c \in HeadContents : body = HeadOpen \o c \o HeadClose
  /\ idx = 1
  /\ slept = FALSE
  /\ reqs = [NoReqs EXCEPT !.llm1 = 1, !.head = 1]
  /\ ret = NoReturn

NextHTML == HeadExtract

SpecHTML == InitHTML /\ [][NextHTML]_vars

\* the tag a piece opens, the tag it closes
Opens(p) ==
  IF p \in {PScript, PScriptUpper} THEN "script"
  ELSE IF p = PStyle THEN "style" ELSE "none"
Closes(p) ==
  IF p = PScriptEnd THEN "script"
  ELSE IF p = PStyleEnd THEN "style" ELSE "none"

RECURSIVE PiecesOf(_)
\* the pieces a head section is made of
PiecesOf(s) ==
  IF s = <<>> THEN <<>>
  ELSE LET p == CHOOSE q \in HtmlPieces : HasPrefix(s, q)
       IN <<p>> \o PiecesOf(From(s, Len(p)))

\* position of the first piece after the first that closes tag, 0 if none
FirstClose(ps, tag) ==
  IF \E j \in 2..Len(ps) : Closes(ps[j]) = tag
  THEN CHOOSE j \in 2..Len(ps) :
         Closes(ps[j]) = tag /\ \A k \in 2..(j - 1) : Closes(ps[k]) # tag
  ELSE 0

\* where the block that ps[1] opens ends: at its closing tag, or at the end
BlockEnd(ps) ==
  IF FirstClose(ps, Opens(ps[1])) = 0 THEN Len(ps) ELSE FirstClose(ps, Opens(ps[1]))

RECURSIVE Stripped(_)
\* the pieces left when every script and style block is taken out
Stripped(ps) ==
  IF ps = <<>> THEN <<>>
  ELSE IF Opens(ps[1]) = "none" THEN <<ps[1]>> \o Stripped(Tail(ps))
  ELSE Stripped(SubSeq(ps, BlockEnd(ps) + 1, Len(ps)))

RECURSIVE Plain(_)
\* no script or style block holds an opening script or style tag
Plain(ps) ==
  IF ps = <<>> THEN TRUE
  ELSE IF Opens(ps[1]) = "none" THEN Plain(Tail(ps))
  ELSE /\ \A j \in 2..BlockEnd(ps) : Opens(ps[j]) = "none"
       /\ Plain(SubSeq(ps, BlockEnd(ps) + 1, Len(ps)))

\* what stands between <head> and </head> in the body
HeadContent == SubSeq(body, Len(HeadOpen) + 1, Len(body) - Len(HeadClose))

CleanedAs(ps) == Plain(ps) => heads[narrowedURLs[1]] = Concat(Stripped(ps))

\* C10: the fragment stored for a head section is the section without its
\* script and style blocks (tag names in any case, a block without closing
\* tag reaching to the end), every other piece kept as it is and in order.
ScriptAndStyleRemoved ==
  (pc = "heads" /\ idx = 2) => CleanedAs(PiecesOf(HeadContent))

\* ------------------------------------------------------ fatal errors of a run

\* the error text parseXMLSitemap gives for each cause of failure
SitemapError ==
  [transport |-> ErrFetch, status |-> ErrStatus, gziperr |-> ErrGzip,
   notxml |-> ErrXML, otherroot |-> ErrFormat]

\* the call for the root sitemap has failed
RootFailed == lastRet.depth = 1 /\ lastRet.kind \in DOMAIN SitemapError

\* C11: when the GET of the root sitemap fails in transport, answers with a
\* status that is not 200, brings a body that cannot be decoded or parsed,
\* or a document with another root, Discover returns that error and no
\* results, and issues no curation call, no page request and no status check.
RootSitemapErrorsFatal ==
  RootFailed =>
    /\ ErrorOut
    /\ ret.err = SitemapError[lastRet.kind]
    /\ reqs = NoReqs
    /\ initialURLs = <<>>
    /\ narrowedURLs = <<>>
    /\ finalResults = <<>>

\* the root sitemap was well-formed XML with a root that is neither
\* <sitemapindex> nor <urlset>
RootOfOtherShape ==
  /\ RootFailed
  /\ lastRet.kind = "otherroot"
  /\ ret.done
  /\ ret.err = ErrFormat

Stages == {"fetch", "parse", "call1", "call2"}

\* the stage whose failure ended the run
FailedStage ==
  IF RootFailed
  THEN IF lastRet.kind \in {"transport", "status"} THEN "fetch" ELSE "parse"
  ELSE IF Stage1Failed THEN "call1"
  ELSE IF Stage2Failed THEN "call2" ELSE "none"

\* the errors a failure of each stage can end the run with
ErrorsOf(stage) ==
  IF stage = "fetch" THEN {ErrFetch, ErrStatus}
  ELSE IF stage = "parse" THEN {ErrGzip, ErrXML, ErrFormat}
  ELSE IF stage = "call1"
       THEN {ErrLLM} \cup ({parseJSONURLs(r).err : r \in NarrowResponses} \ {Nil})
  ELSE {ErrLLM} \cup ({parseJSONResponse(r).err : r \in SelectResponses} \ {Nil})

\* C12: the error a run ends with tells which stage failed: it is an error
\* of the stage that failed and of no other of the stages sitemap fetch,
\* sitemap parse, curation call 1, curation call 2.
ErrorNamesStage ==
  (ret.done /\ ret.err # Nil) =>
    /\ FailedStage \in Stages
    /\ ret.err \in ErrorsOf(FailedStage)
    /\ \A s \in Stages \ {FailedStage} : ret.err \notin ErrorsOf(s)

\* the same for the sitemap stages alone
SitemapErrorNamesStage ==
  (ret.done /\ ret.err # Nil /\ RootFailed) =>
    /\ ret.err \in ErrorsOf(FailedStage)
    /\ \A s \in Stages \ {FailedStage} : ret.err \notin ErrorsOf(s)

\* ------------------------------------------------------ pacing of extractHeads

\* C13: between two consecutive page requests of extractHeads the delay has
\* elapsed: a request that is not the first is issued only after the sleep
\* that follows the request before it.
RequestsArePaced ==
  [][(reqs'.head = reqs.head + 1 /\ reqs.head > 0) => slept]_vars

\* the same for a request that follows a page whose body was read
PacedAfterReadBody ==
  [][(reqs'.head = reqs.head + 1 /\ reqs.head > 0
        /\ narrowedURLs[idx - 1] \in DOMAIN heads
        /\ reqs'.headFail = reqs.headFail /\ reqs.headFail = 0) => slept]_vars

\* --------------------------------------------------------- order of the stages

\* the stage each position of Discover belongs to
Rank ==
  [resolve |-> 1, sample |-> 2, narrow |-> 3, narrowParse |-> 3, heads |-> 4,
   headExtract |-> 4, select |-> 5, selectParse |-> 5, status |-> 6,
   done |-> 7, panic |-> 7]

\* C14: a run goes through resolve, sample, narrow-down, extract heads,
\* select-and-categorize, check status in this order, each stage after the
\* one before it has finished, or ends; pages are requested only for the
\* URLs stage 1 returned, status is checked only for the URLs stage 2
\* returned, entry by entry; each curation call is made at most once, and a
\* run that returns results has made both.
StagesInOrder ==
  /\ []( /\ reqs.llm1 <= 1 /\ reqs.llm2 <= 1
         /\ reqs.llm1 = 1 =>
              /\ Rank[pc] >= 3
              /\ stack = <<>>
              /\ lastRet.depth = 1 /\ lastRet.res.err = Nil
              /\ population = lastRet.res.val
              /\ initialURLs \in sampleUrls(population)
         /\ reqs.head > 0 =>
              /\ Rank[pc] >= 4
              /\ reqs.llm1 = 1 /\ ~Stage1Failed
              /\ reqs.head <= Len(narrowedURLs)
         /\ DOMAIN heads \subseteq Range(narrowedURLs)
         /\ reqs.llm2 = 1 =>
              /\ Rank[pc] >= 5
              /\ reqs.llm1 = 1
              /\ reqs.head = Len(narrowedURLs)
              /\ DOMAIN heads = Range(narrowedURLs)
         /\ reqs.status > 0 =>
              /\ Rank[pc] >= 6
              /\ reqs.llm2 = 1 /\ ~Stage2Failed
         /\ reqs.status = Len(checked)
         /\ Len(checked) <= Len(curated)
         /\ \A i \in 1..Len(checked) : checked[i].url = curated[i].url
         /\ (ret.done /\ ret.err = Nil) =>
              /\ reqs.llm1 = 1 /\ reqs.llm2 = 1
              /\ reqs.head = Len(narrowedURLs)
              /\ reqs.status = Len(curated) )
  /\ [][ /\ Rank[pc'] \in {Rank[pc], Rank[pc] + 1, Rank["done"]}
         /\ reqs'.head = reqs.head + 1 => Rank[pc] = 4
         /\ reqs'.status = reqs.status + 1 => Rank[pc] = 6
         /\ reqs'.llm1 = reqs.llm1 + 1 => pc = "narrow"
         /\ reqs'.llm2 = reqs.llm2 + 1 => pc = "select" ]_vars

\* a run returned results after stage 1 had kept one of the two sampled
\* URLs: one page request, two curation calls, one status check per entry
RunThroughAllStages ==
  /\ ret.done
  /\ ret.err = Nil
  /\ initialURLs = <<UB, UA>>
  /\ narrowedURLs = <<UA>>
  /\ reqs.llm1 = 1 /\ reqs.llm2 = 1
  /\ reqs.head = 1
  /\ Len(ret.results) = 2
  /\ reqs.status = 2

\* ------------------------------------------------- a sitemap index in a cycle

RootURL == SiteURL \o SitemapSuffix

\* how many nested calls of parseXMLSitemap are followed
MaxUnwind == 6

\* a GET that succeeds with the document c, gzipped or not
Brings(c, gz) == [net |-> "200", gzipHeader |-> gz, gzipBody |-> gz, content |-> c]

\* The root sitemap is an index of S1 and of the root sitemap itself; S1 is
\* an index of S2gz; S2gz is a gzipped URL set.  Every GET succeeds.
CycleSite ==
  [urlsets |-> {}, indexes |-> {}, depth |-> MaxUnwind,
   at |-> [u \in {RootURL, S1, S2gz} |->
             IF u = RootURL
             THEN {Brings([kind |-> "sitemapindex", items |-> << <<S1>>, <<RootURL>> >>], FALSE)}
             ELSE IF u = S1
             THEN {Brings([kind |-> "sitemapindex", items |-> << <<S2gz>> >>], FALSE)}
             ELSE {Brings([kind |-> "urlset", items |-> d], TRUE)
                     : d \in { << <<UA>> >>, << <<UB>>, <<>>, <<UA>> >> }}]]

NextCycle == ParseFetch(CycleSite) \/ IndexNext \/ IndexReturn

SpecCycle == InitResolve /\ [][NextCycle]_vars

\* the active calls for the root sitemap
RootCalls == {d \in 1..Len(stack) : stack[d].url = RootURL}

\* C15: when the root index lists itself and every GET succeeds, the
\* resolution does not end and Discover does not return: no call for the
\* root sitemap ever returns, each one gets to the reference to itself and
\* calls again, so the calls only pile up.
CycleNeverReturns ==
  /\ []( /\ pc = "resolve"
         /\ ~ret.done
         /\ stack # <<>>
         /\ stack[1].url = RootURL
         /\ \A d \in RootCalls : stack[d].st = "index" => stack[d].i <= Len(stack[d].refs)
         /\ ~(lastRet.kind = "sitemapindex" /\ Len(lastRet.items) = 2) )
  /\ [][Cardinality(RootCalls') >= Cardinality(RootCalls)]_vars

\* the root index has been entered as often as calls are followed, each time
\* from the call before
CycleUnwound ==
  /\ Cardinality(RootCalls) = MaxUnwind
  /\ Len(stack) = MaxUnwind
  /\ \A d \in 1..(Len(stack) - 1) : stack[d].i = 2 /\ Len(stack[d].urls) > 0
  /\ stack[Len(stack)].st = "index"

\* ------------------------------------------------- the head span of a body

\* the body has a <head> ... </head> span: the first </head> does not lie
\* before the end of the first <head>
HasHeadSpan(b) ==
  /\ Index(b, HeadOpen) # -1
  /\ Index(b, HeadClose) # -1
  /\ Index(b, HeadOpen) + Len(HeadOpen) <= Index(b, HeadClose)

\* the fragment to be stored for a body: the cleaned text of the span, or
\* the empty fragment when there is no span
FragmentFor(b) ==
  IF HasHeadSpan(b)
  THEN cleanupHTML(SubSeq(b, Index(b, HeadOpen) + Len(HeadOpen) + 1,
                          Index(b, HeadClose))).out
  ELSE <<>>

\* C16: for every page body read, extractHeads stores a fragment for the
\* URL (the cleaned text between <head> and </head>, or the empty fragment
\* when the body has no such span) and goes on to the next URL; it never
\* crashes.
HeadStoredForEveryBody ==
  /\ [](pc # "panic")
  /\ [][pc = "headExtract" =>
          /\ pc' = "heads"
          /\ idx' = idx + 1
          /\ narrowedURLs[idx] \in DOMAIN heads'
          /\ heads'[narrowedURLs[idx]] = FragmentFor(body)]_vars

\* the same for the bodies in which no </head> stands before the first <head>
HeadStoredUnlessCloseFirst ==
  [][(pc = "headExtract"
        /\ ~(Index(body, HeadOpen) # -1 /\ Index(body, HeadClose) # -1
               /\ Index(body, HeadClose) < Index(body, HeadOpen))) =>
          /\ pc' = "heads"
          /\ idx' = idx + 1
          /\ heads'[narrowedURLs[idx]] = FragmentFor(body)]_vars

\* --------------------------------------------------------- empty resolutions

\* the root sitemap was a URL set without entries
EmptyUrlset == lastRet.depth = 1 /\ lastRet.kind = "urlset" /\ lastRet.items = <<>>

\* the root sitemap was an index without <sitemap> elements
EmptyIndex == lastRet.depth = 1 /\ lastRet.kind = "sitemapindex" /\ lastRet.items = <<>>

\* the root sitemap was an index all of whose sub-sitemaps failed
AllSubSitemapsFailed ==
  /\ lastRet.depth = 1
  /\ lastRet.kind = "sitemapindex"
  /\ lastRet.got # <<>>
  /\ \A i \in 1..Len(lastRet.got) : lastRet.got[i].err # Nil

\* C17: a URL set without entries, an index without references and an
\* index whose sub-sitemaps all fail resolve to the empty list without
\* error; Discover does not end at the resolve stage but goes on: the list
\* it samples and hands to stage 1 is empty, and the run does not end before
\* the stage-1 call has been made.
EmptyResolutionGoesOn ==
  (EmptyUrlset \/ EmptyIndex \/ AllSubSitemapsFailed) =>
    /\ lastRet.res = Ok(<<>>)
    /\ Rank[pc] >= 2
    /\ initialURLs = <<>>
    /\ Rank[pc] >= 3 => population = <<>>
    /\ ret.done => reqs.llm1 = 1
    /\ ret.err \notin {SitemapError[k] : k \in DOMAIN SitemapError}

\* stage 1 has been called with the empty list after every sub-sitemap of
\* the root index had failed
Stage1CalledWithNothing ==
  /\ AllSubSitemapsFailed
  /\ pc = "narrowParse"
  /\ reqs.llm1 = 1
  /\ initialURLs = <<>>

====
